---- MODULE Spec2Model ----
(***************************************************************************)
(* recrepo: record the state of git repositories after asserting that     *)
(* they are clean.  One run of the command line program is modelled as a  *)
(* sequential state machine: the four git queries of every pointer, the   *)
(* dirtiness policy, the opening and writing of the destination, and the  *)
(* two ways the process ends on an exception.                             *)
(***************************************************************************)
EXTENDS Integers, Sequences, FiniteSets, TLC

\* ------------------------------------------------------------------ bounds

\* Longest list of pointers given on the command line (nargs="+": at least 1).
MaxPointers == 2

\* ------------------------------------------------------- program constants

\* DirtyRepositories.CODE
CODE == 113

\* Exit status of the interpreter when an exception other than
\* DirtyRepositories leaves cli() and main() uncaught.
UncaughtExit == 1

\* ------------------------------------------------------------- environment

\* Two repositories on disk.  Each tracks the file "a" and may hold the
\* untracked file "b"; the second one has the subdirectory "d".
Toplevels == {"/r1", "/r2"}

Dirs == Toplevels \cup {"/r2/d"}

\* Paths a user can give: a file inside a repository, a repository root, a
\* directory inside a repository.
Pointers == {"/r1/a", "/r2", "/r2/d"}

IsDir(p) == p \in Dirs

Parent(p) == IF p = "/r1/a" THEN "/r1" ELSE IF p = "/r2/d" THEN "/r2" ELSE "/"

\* The root of the working tree that holds directory d.
ToplevelOf(d) == IF d \in Toplevels THEN d ELSE Parent(d)

\* The commit HEAD names in each repository.
HeadRev(top) == IF top = "/r1" THEN "rev1" ELSE "rev2"

\* Exit statuses of a failing git invocation.
FailStatuses == {1, 128}

\* A working tree: the tracked files that differ from HEAD, the untracked files.
WorkTrees == [modified : SUBSET {"a"}, untracked : SUBSET {"b"}]

\* ------------------------------------------------------------------- text

\* A text is a sequence of tokens: a token is a blank, a newline or a word.
Whitespace == {" ", "\n"}

RECURSIVE LStrip(_)
LStrip(t) ==
    IF t = <<>> THEN <<>>
    ELSE IF Head(t) \in Whitespace THEN LStrip(Tail(t))
    ELSE t

RECURSIVE RStrip(_)
RStrip(t) ==
    IF t = <<>> THEN <<>>
    ELSE IF t[Len(t)] \in Whitespace THEN RStrip(SubSeq(t, 1, Len(t) - 1))
    ELSE t

Strip(t) == LStrip(RStrip(t))

\* str.splitlines(): the lines of a text, without their newlines.
RECURSIVE SplitFrom(_, _, _)
SplitFrom(t, cur, acc) ==
    IF t = <<>> THEN (IF cur = <<>> THEN acc ELSE Append(acc, cur))
    ELSE IF Head(t) = "\n" THEN SplitFrom(Tail(t), <<>>, Append(acc, cur))
    ELSE SplitFrom(Tail(t), Append(cur, Head(t)), acc)

SplitLines(t) == SplitFrom(t, <<>>, <<>>)

\* -------------------------------------------------------------------- git

\* A file of the working tree root, as git names it from directory cwd.
RelPath(cwd, f) ==
    IF cwd \in Toplevels THEN f ELSE IF f = "a" THEN "../a" ELSE "../b"

\* Output of `git status --short [--untracked-files=no]` run in cwd, inside
\* working tree wt: one line " M <file>" per modified tracked file, then,
\* unless untracked files are hidden, one line "?? <file>" per untracked file.
GitStatusShort(cwd, wt, showUntracked) ==
    (IF "a" \in wt.modified
     THEN <<" ", "M", " ", RelPath(cwd, "a"), "\n">> ELSE <<>>)
    \o (IF showUntracked /\ "b" \in wt.untracked
        THEN <<"?", "?", " ", RelPath(cwd, "b"), "\n">> ELSE <<>>)

\* Output of `git rev-parse HEAD`.
GitRevParseHead(cwd) == <<HeadRev(ToplevelOf(cwd)), "\n">>

\* Output of `git rev-parse --show-toplevel`.
GitShowToplevel(cwd) == <<ToplevelOf(cwd), "\n">>

\* ------------------------------------------------------------------ state

VARIABLES
    worktree,         \* the working tree of each repository on disk
    pointers,         \* command line: the pointers, in order
    ignore_dirty,     \* command line: --ignore-dirty
    ignore_untracked, \* command line: --ignore-untracked
    output,           \* command line: --output ("-" is standard output)
    pc,               \* position of the run
    path,             \* repostate: directory the git queries run in
    status,           \* repostate: output of the combined status query
    status_tracked,   \* repostate: output of the tracked-only status query
    revision,         \* repostate: stripped output of rev-parse HEAD
    repos,            \* recrepo: RepoStates obtained so far, in order
    records,          \* cli: the records recrepo returned
    raised,           \* class of the exception in flight, "None" when none
    err,              \* the DirtyRepositories object, once raised
    toolrc,           \* exit status of the git invocation that failed, or 0
    file,             \* what the output path holds on disk
    fileData,         \* the records written to the output file
    opens,            \* how many times the output path was opened for writing
    stdout,           \* the records written to standard output
    stderr,           \* the lines written to the error stream
    exitcode          \* exit status of the process, -1 while it runs

vars == <<worktree, pointers, ignore_dirty, ignore_untracked, output, pc, path,
          status, status_tracked, revision, repos, records, raised, err,
          toolrc,
          file, fileData, opens, stdout, stderr, exitcode>>

args == <<worktree, pointers, ignore_dirty, ignore_untracked, output>>

locals == <<path, status, status_tracked, revision>>

streams == <<file, fileData, opens, stdout, stderr, exitcode>>

\* Sequences of 1..n elements of S.
SeqUpTo(S, n) == UNION {[1..k -> S] : k \in 1..n}

\* ------------------------------------------------------------- RepoState

RepoState(is_clean, is_clean_tracked, st, st_tracked, rev, top) ==
    [is_clean |-> is_clean, is_clean_tracked |-> is_clean_tracked,
     status |-> st, status_tracked |-> st_tracked,
     revision |-> rev, toplevel |-> top]

\* to_record: the state as a dict, without the two status texts.
to_record(state) ==
    [k \in (DOMAIN state) \ {"status", "status_tracked"} |-> state[k]]

\* Mutant: the records come out in reverse order.
MapRecordsReversed(xs) == [k \in 1..Len(xs) |-> to_record(xs[Len(xs) + 1 - k])]

\* map(f, xs) for the two maps of recrepo.
MapRecords(xs) == [k \in 1..Len(xs) |-> to_record(xs[k])]

\* all(r.is_clean for r in repos), all(r.is_clean_tracked for r in repos)
AllClean(rs) == \A k \in 1..Len(rs) : rs[k].is_clean

AllCleanTracked(rs) == \A k \in 1..Len(rs) : rs[k].is_clean_tracked

\* ---------------------------------------------------- DirtyRepositories

\* The exception object: DirtyRepositories(repos, tracked=False).
DirtyRepositories(rs, tracked) == [repos |-> rs, tracked |-> tracked]

\* Mutant: __str__ lists every repository it was given.
SelectedAll(self) == self.repos

\* The repositories __str__ selects.
Selected(self) ==
    IF self.tracked
    THEN SelectSeq(self.repos, LAMBDA r : ~r.is_clean_tracked)
    ELSE SelectSeq(self.repos, LAMBDA r : ~r.is_clean)

\* The header line: print(len(repos), "dirty", noun, "found:").
Header(n) ==
    <<ToString(n), "dirty", IF n > 1 THEN "repositories" ELSE "repository",
      "found:">>

\* The lines printed for one selected repository.
PrefixLines(ls) == [k \in 1..Len(ls) |-> <<"|  ">> \o ls[k]]

Entry(r, tracked) ==
    <<<<>>, <<"*">> \o r.toplevel \o <<"@">> \o r.revision>>
    \o PrefixLines(SplitLines(IF tracked THEN r.status_tracked ELSE r.status))

RECURSIVE Entries(_, _)
Entries(rs, tracked) ==
    IF rs = <<>> THEN <<>>
    ELSE Entry(Head(rs), tracked) \o Entries(Tail(rs), tracked)

\* DirtyRepositories.__str__: the report, as its lines.
DirtyStr(self) ==
    <<Header(Len(Selected(self)))>>
    \o Entries(Selected(self), self.tracked)
    \o <<<<>>, <<"Aborting...">>>>

\* What recrepo raises when the policy rejects the run.
RaisedDirty(rs) == DirtyRepositories(rs, FALSE)

\* Mutant: --ignore-untracked is not looked at.
PolicyRejectsStrictOnly(rs, ign_dirty, ign_untracked) ==
    IF ign_dirty THEN FALSE ELSE ~AllClean(rs)

\* Mutant: --ignore-untracked is tested before --ignore-dirty.
PolicyRejectsUntrackedFirst(rs, ign_dirty, ign_untracked) ==
    IF ign_untracked THEN ~AllCleanTracked(rs)
    ELSE IF ign_dirty THEN FALSE
    ELSE ~AllClean(rs)

\* The policy of recrepo: TRUE when the run is rejected.
PolicyRejects(rs, ign_dirty, ign_untracked) ==
    IF ign_dirty THEN FALSE
    ELSE IF ign_untracked THEN ~AllCleanTracked(rs)
    ELSE ~AllClean(rs)

\* The traceback of an uncaught exception, as one line.
Traceback(exc, rc) == <<<<"Traceback", exc, ToString(rc)>>>>

\* ------------------------------------------------------------------- Init

\* Mutant: the parser opens the output file (type=argparse.FileType("w")).
InitFileType ==
    /\ worktree \in [Toplevels -> WorkTrees]
    /\ pointers \in SeqUpTo(Pointers, MaxPointers)
    /\ ignore_dirty \in BOOLEAN
    /\ ignore_untracked \in BOOLEAN
    /\ output \in {"-", "recrepo.json"}
    /\ pc = "resolve"
    /\ path = "/"
    /\ status = <<>>
    /\ status_tracked = <<>>
    /\ revision = <<>>
    /\ repos = <<>>
    /\ records = <<>>
    /\ raised = "None"
    /\ err = DirtyRepositories(<<>>, FALSE)
    /\ toolrc = 0
    /\ file = IF output = "-" THEN "absent" ELSE "empty"
    /\ fileData = <<>>
    /\ opens = IF output = "-" THEN 0 ELSE 1
    /\ stdout = <<>>
    /\ stderr = <<>>
    /\ exitcode = -1

\* A process just started by main(): the arguments parsed, nothing inspected.
Init ==
    /\ worktree \in [Toplevels -> WorkTrees]
    /\ pointers \in SeqUpTo(Pointers, MaxPointers)
    /\ ignore_dirty \in BOOLEAN
    /\ ignore_untracked \in BOOLEAN
    /\ output \in {"-", "recrepo.json"}
    /\ pc = "resolve"
    /\ path = "/"
    /\ status = <<>>
    /\ status_tracked = <<>>
    /\ revision = <<>>
    /\ repos = <<>>
    /\ records = <<>>
    /\ raised = "None"
    /\ err = DirtyRepositories(<<>>, FALSE)
    /\ toolrc = 0
    /\ file \in {"absent", "old"}
    /\ fileData = <<>>
    /\ opens = 0
    /\ stdout = <<>>
    /\ stderr = <<>>
    /\ exitcode = -1

\* -------------------------------------------------------------- repostate

\* The pointer being inspected: map() calls repostate on them in order.
Current == pointers[Len(repos) + 1]

\* check_output raised CalledProcessError: it leaves repostate, recrepo and
\* cli, none of which catches it.
GitFails(rc) ==
    /\ raised' = "CalledProcessError"
    /\ toolrc' = rc
    /\ pc' = "uncaught"
    /\ UNCHANGED <<args, locals, repos, records, err, streams>>

\* path = Path(pointer).resolve(); if not path.is_dir(): path = path.parent
ResolveDir(pointer) == IF IsDir(pointer) THEN pointer ELSE Parent(pointer)

Resolve ==
    /\ pc = "resolve"
    /\ path' = ResolveDir(Current)
    /\ pc' = "status"
    /\ UNCHANGED <<args, status, status_tracked, revision, repos, records,
                   raised, err, toolrc, streams>>

\* status = git("status", "--short")
QueryStatus ==
    /\ pc = "status"
    /\ \/ /\ status' = GitStatusShort(path, worktree[ToplevelOf(path)], TRUE)
          /\ pc' = "status_tracked"
          /\ UNCHANGED <<args, path, status_tracked, revision, repos, records,
                         raised, err, toolrc, streams>>
       \/ \E rc \in FailStatuses : GitFails(rc)

\* status_tracked = git("status", "--short", "--untracked-files=no")
QueryStatusTracked ==
    /\ pc = "status_tracked"
    /\ \/ /\ status_tracked' =
                GitStatusShort(path, worktree[ToplevelOf(path)], FALSE)
          /\ pc' = "revision"
          /\ UNCHANGED <<args, path, status, revision, repos, records,
                         raised, err, toolrc, streams>>
       \/ \E rc \in FailStatuses : GitFails(rc)

\* revision=git("rev-parse", "HEAD").strip()
QueryRevision ==
    /\ pc = "revision"
    /\ \/ /\ revision' = Strip(GitRevParseHead(path))
          /\ pc' = "toplevel"
          /\ UNCHANGED <<args, path, status, status_tracked, repos, records,
                         raised, err, toolrc, streams>>
       \/ \E rc \in FailStatuses : GitFails(rc)

\* Mutant: the two status outputs are taken one for the other.
NewStateSwapped(st, st_tracked, rev, top_out) ==
    RepoState(Strip(st_tracked) = <<>>, Strip(st) = <<>>, st, st_tracked,
              rev, RStrip(top_out))

\* The RepoState repostate returns, given the output of the last query.
NewState(st, st_tracked, rev, top_out) ==
    RepoState(Strip(st) = <<>>, Strip(st_tracked) = <<>>, st, st_tracked,
              rev, RStrip(top_out))

\* Mutant: recrepo goes to its policy as soon as a repository is not clean.
QueryToplevelShortCircuit ==
    /\ pc = "toplevel"
    /\ \/ /\ repos' = Append(repos, RepoState(Strip(status) = <<>>,
                                 Strip(status_tracked) = <<>>, status,
                                 status_tracked, revision,
                                 RStrip(GitShowToplevel(path))))
          /\ pc' = IF Len(repos') < Len(pointers) /\ Strip(status) = <<>>
                   THEN "resolve" ELSE "policy"
          /\ UNCHANGED <<args, locals, records, raised, err, toolrc, streams>>
       \/ \E rc \in FailStatuses : GitFails(rc)

\* toplevel=git("rev-parse", "--show-toplevel").rstrip(); the RepoState is
\* built and map() goes on to the next pointer, or recrepo to its policy.
QueryToplevel ==
    /\ pc = "toplevel"
    /\ \/ /\ repos' = Append(repos, NewState(status, status_tracked, revision,
                                              GitShowToplevel(path)))
          /\ pc' = IF Len(repos') < Len(pointers) THEN "resolve" ELSE "policy"
          /\ UNCHANGED <<args, locals, records, raised, err, toolrc, streams>>
       \/ \E rc \in FailStatuses : GitFails(rc)

\* ---------------------------------------------------------------- recrepo

\* The if/elif chain of recrepo after the map: raise, or return the records.
Policy ==
    /\ pc = "policy"
    /\ IF PolicyRejects(repos, ignore_dirty, ignore_untracked)
       THEN /\ raised' = "DirtyRepositories"
            /\ err' = RaisedDirty(repos)
            /\ pc' = "except"
            /\ UNCHANGED records
       ELSE /\ records' = MapRecords(repos)
            /\ pc' = "open"
            /\ UNCHANGED <<raised, err>>
    /\ UNCHANGED <<args, locals, repos, toolrc, streams>>

\* -------------------------------------------------------------------- cli

\* with _openw(output) as file: standard output as it is, or open(path, "w"),
\* which creates or truncates the file, or raises OSError and leaves it alone.
Open ==
    /\ pc = "open"
    /\ \/ /\ output = "-"
          /\ pc' = "dump"
          /\ UNCHANGED <<file, opens, raised>>
       \/ /\ output # "-"
          /\ file' = "empty"
          /\ opens' = opens + 1
          /\ pc' = "dump"
          /\ UNCHANGED raised
       \/ /\ output # "-"
          /\ raised' = "OSError"
          /\ pc' = "uncaught"
          /\ UNCHANGED <<file, opens>>
    /\ UNCHANGED <<args, locals, repos, records, err, toolrc, fileData,
                   stdout, stderr, exitcode>>

\* json.dump(records, file, sort_keys=True, ...), the file closed, and the
\* process ends normally; or a write fails with OSError.
Dump ==
    /\ pc = "dump"
    /\ \/ /\ IF output = "-"
             THEN stdout' = records /\ UNCHANGED <<file, fileData>>
             ELSE file' = "json" /\ fileData' = records /\ UNCHANGED stdout
          /\ pc' = "exit"
          /\ exitcode' = 0
          /\ UNCHANGED raised
       \/ /\ raised' = "OSError"
          /\ pc' = "uncaught"
          /\ UNCHANGED <<file, fileData, stdout, exitcode>>
    /\ UNCHANGED <<args, locals, repos, records, err, toolrc, opens, stderr>>

\* except DirtyRepositories as err: print(err, file=sys.stderr);
\* sys.exit(err.CODE)
ExceptDirty ==
    /\ pc = "except"
    /\ stderr' = DirtyStr(err)
    /\ exitcode' = CODE
    /\ pc' = "exit"
    /\ UNCHANGED <<args, locals, repos, records, raised, err, toolrc, file,
                   fileData, opens, stdout>>

\* Mutant: the process exits with the exit status of the failed git.
UncaughtPropagates ==
    /\ pc = "uncaught"
    /\ stderr' = <<<<"Traceback", raised, ToString(toolrc)>>>>
    /\ exitcode' = IF raised = "CalledProcessError" THEN toolrc ELSE UncaughtExit
    /\ pc' = "exit"
    /\ UNCHANGED <<args, locals, repos, records, raised, err, toolrc, file,
                   fileData, opens, stdout>>

\* Any other exception leaves cli and main: the interpreter prints the
\* traceback and exits.
Uncaught ==
    /\ pc = "uncaught"
    /\ stderr' = Traceback(raised, toolrc)
    /\ exitcode' = UncaughtExit
    /\ pc' = "exit"
    /\ UNCHANGED <<args, locals, repos, records, raised, err, toolrc, file,
                   fileData, opens, stdout>>

Next ==
    \/ Resolve
    \/ QueryStatus
    \/ QueryStatusTracked
    \/ QueryRevision
    \/ QueryToplevel
    \/ Policy
    \/ Open
    \/ Dump
    \/ ExceptDirty
    \/ Uncaught

Spec == Init /\ [][Next]_vars

\* ---------------------------------------------------- vocabulary of claims

\* The process has ended.
Exited == pc = "exit"

\* Every pointer was inspected: none of the git queries failed.
Inspected == Len(repos) = Len(pointers)

\* The run was rejected: recrepo raised DirtyRepositories.
Rejected == raised = "DirtyRepositories"

\* The repository a pointer names, and what is true of it on disk.
RepoOf(pointer) == ToplevelOf(ResolveDir(pointer))

DiskClean(top) ==
    worktree[top].modified = {} /\ worktree[top].untracked = {}

DiskCleanTracked(top) == worktree[top].modified = {}

\* r violates the cleanliness predicate of the active policy.
Violates(r) == IF ignore_untracked THEN ~r.is_clean_tracked ELSE ~r.is_clean

\* The records that reached the destination.
Emitted == IF output = "-" THEN stdout ELSE fileData

\* The report's header line for n listed repositories.
HeaderFor(n) ==
    IF n = 1 THEN <<"1", "dirty", "repository", "found:">>
    ELSE <<ToString(n), "dirty", "repositories", "found:">>

\* The "* <toplevel> @ <revision>" lines of a report, in order.
StarLines(report) ==
    SelectSeq(report, LAMBDA l : Len(l) > 0 /\ l[1] = "*")

\* The status lines of a report, in order, without their prefix.
StatusLines(report) ==
    LET ls == SelectSeq(report, LAMBDA l : Len(l) > 0 /\ l[1] = "|  ")
    IN [k \in 1..Len(ls) |-> Tail(ls[k])]

RECURSIVE FlatLines(_, _)
FlatLines(rs, tracked) ==
    IF rs = <<>> THEN <<>>
    ELSE SplitLines(IF tracked THEN Head(rs).status_tracked
                    ELSE Head(rs).status)
         \o FlatLines(Tail(rs), tracked)

\* The report lists exactly the repositories `listed`, in order, counts them
\* in its header, and shows for each its tracked-only or its combined status.
ReportLists(report, listed, tracked) ==
    /\ Len(report) > 0
    /\ report[1] = HeaderFor(Len(listed))
    /\ StarLines(report) =
         [k \in 1..Len(listed) |->
            <<"*">> \o listed[k].toplevel \o <<"@">> \o listed[k].revision]
    /\ StatusLines(report) = FlatLines(listed, tracked)

\* ----------------------------------------------------------------- claims

\* C1: with ignore_dirty unset and every inspection successful, the run is
\* rejected (DirtyRepositories raised, exit code 113) if and only if some
\* inspected repository violates the active predicate: is_clean in Strict
\* mode, is_clean_tracked in Ignore-untracked mode.
C1_RejectedIffViolation ==
    (Exited /\ Inspected /\ ~ignore_dirty) =>
        /\ Rejected <=> \E k \in 1..Len(repos) : Violates(repos[k])
        /\ Rejected <=> exitcode = CODE
        /\ \A k \in 1..Len(repos) :
              /\ repos[k].is_clean <=> DiskClean(RepoOf(pointers[k]))
              /\ repos[k].is_clean_tracked
                   <=> DiskCleanTracked(RepoOf(pointers[k]))

\* Ignore-untracked accepted a list whose repositories are all clean among
\* tracked files although one holds an untracked file.
C1_Witness ==
    /\ Exited /\ Inspected /\ ~ignore_dirty /\ ignore_untracked
    /\ Len(repos) = 2
    /\ ~repos[1].is_clean /\ repos[1].is_clean_tracked
    /\ repos[2].is_clean
    /\ exitcode = 0

\* C2 as stated: with ignore_dirty set, whatever ignore_untracked and the
\* repositories are, DirtyRepositories is never raised, and a run whose
\* inspections all succeed exits 0, writes nothing to the error stream and
\* emits every record with its true is_clean value.
C2_Original ==
    ignore_dirty =>
        /\ ~Rejected
        /\ (Exited /\ Inspected) =>
              /\ exitcode = 0
              /\ stderr = <<>>
              /\ Len(Emitted) = Len(pointers)
              /\ \A k \in 1..Len(pointers) :
                    Emitted[k].is_clean <=> DiskClean(RepoOf(pointers[k]))

\* C2 amended: the same, for the runs whose destination is opened and
\* written without error.
C2_IgnoreDirtyNeverRejects ==
    ignore_dirty =>
        /\ ~Rejected
        /\ exitcode # CODE
        /\ (Exited /\ Inspected /\ raised # "OSError") =>
              /\ exitcode = 0
              /\ stderr = <<>>
              /\ Len(Emitted) = Len(pointers)
              /\ \A k \in 1..Len(pointers) :
                    Emitted[k].is_clean <=> DiskClean(RepoOf(pointers[k]))

\* Both flags set, a repository with a modified tracked file: exit 0 and its
\* record says is_clean = false.
C2_Witness ==
    /\ Exited /\ ignore_dirty /\ ignore_untracked
    /\ exitcode = 0
    /\ Len(Emitted) = 2
    /\ ~Emitted[1].is_clean /\ ~Emitted[1].is_clean_tracked
    /\ Emitted[2].is_clean

\* C3: a successful run over N pointers emits exactly N records, record i
\* carrying the toplevel, revision and is_clean of the repository pointer i
\* names; nothing is dropped, duplicated or reordered.
C3_RecordsInOrder ==
    (Exited /\ exitcode = 0) =>
        /\ Len(Emitted) = Len(pointers)
        /\ \A k \in 1..Len(pointers) :
              /\ Emitted[k].toplevel = <<RepoOf(pointers[k])>>
              /\ Emitted[k].revision = <<HeadRev(RepoOf(pointers[k]))>>
              /\ Emitted[k].is_clean <=> DiskClean(RepoOf(pointers[k]))
              /\ Emitted[k].toplevel = repos[k].toplevel
              /\ Emitted[k].revision = repos[k].revision
              /\ Emitted[k].is_clean = repos[k].is_clean

\* Two pointers into two repositories, the second of them dirty, given in
\* the order that is not the order of their names.
C3_Witness ==
    /\ Exited /\ exitcode = 0
    /\ pointers = <<"/r2/d", "/r1/a">>
    /\ Emitted[1].toplevel = <<"/r2">> /\ Emitted[1].is_clean
    /\ Emitted[2].toplevel = <<"/r1">> /\ ~Emitted[2].is_clean

\* C4: the destination is opened at most once, and only after every pointer
\* was inspected and the policy accepted; in a run that fails on a git query
\* or on the policy it is never opened, and the output path keeps what it
\* held.
C4_OpenOnlyAfterSuccess ==
    [][/\ opens' <= 1
       /\ (opens' # opens \/ file' # file \/ fileData' # fileData) =>
             /\ Inspected
             /\ ~PolicyRejects(repos, ignore_dirty, ignore_untracked)
             /\ raised = "None"
             /\ pc \in {"open", "dump"}
       /\ raised' \in {"CalledProcessError", "DirtyRepositories"} =>
             /\ opens' = 0
             /\ file' = file
             /\ fileData' = <<>>]_vars

\* A rejected run that was to write a file which existed before.
C4_Witness ==
    /\ Exited /\ Rejected
    /\ output = "recrepo.json"
    /\ file = "old" /\ opens = 0

\* C5 as stated: exit code 0 exactly when all inspections succeed and the
\* policy accepts, 113 exactly when all succeed and the policy rejects, and
\* when a git query exits non-zero a non-zero code other than 113, the one
\* of the failing invocation, with no record emitted.
C5_Original ==
    Exited =>
        /\ exitcode = 0 <=>
             (Inspected
              /\ ~PolicyRejects(repos, ignore_dirty, ignore_untracked))
        /\ exitcode = CODE <=>
             (Inspected
              /\ PolicyRejects(repos, ignore_dirty, ignore_untracked))
        /\ raised = "CalledProcessError" =>
              /\ exitcode \notin {0, CODE}
              /\ exitcode = toolrc
              /\ Emitted = <<>>

\* C5 amended: 0 exactly when all inspections succeed, the policy accepts and
\* the destination is opened and written without error; 113 exactly when all
\* inspections succeed and the policy rejects; a failing git query, whatever
\* its exit status, ends the run with the status of an uncaught exception,
\* which is neither 0 nor 113, with no record emitted; a failure of the
\* destination ends it with a code that is neither 0 nor 113.
C5_ExitCodes ==
    Exited =>
        /\ exitcode = 0 <=>
             (Inspected
              /\ ~PolicyRejects(repos, ignore_dirty, ignore_untracked)
              /\ raised = "None")
        /\ exitcode = CODE <=>
             (Inspected
              /\ PolicyRejects(repos, ignore_dirty, ignore_untracked))
        /\ raised = "CalledProcessError" =>
              /\ ~Inspected
              /\ toolrc \in FailStatuses
              /\ exitcode = UncaughtExit
              /\ exitcode \notin {0, CODE}
              /\ Emitted = <<>>
              /\ stdout = <<>>
        /\ raised = "OSError" => exitcode \notin {0, CODE}

\* The second pointer's git query exited 128 after the first pointer was
\* inspected.
C5_Witness ==
    /\ Exited /\ raised = "CalledProcessError"
    /\ toolrc = 128
    /\ Len(repos) = 1 /\ Len(pointers) = 2
    /\ exitcode = UncaughtExit

\* C6: a run rejected under Ignore-untracked reports exactly the repositories
\* with is_clean_tracked = false, counts only them in the header, and shows
\* for each its tracked-only status.
C6_ReportTrackedOnly ==
    (Exited /\ Rejected /\ ignore_untracked /\ ~ignore_dirty) =>
        ReportLists(stderr,
                    SelectSeq(repos, LAMBDA r : ~r.is_clean_tracked), TRUE)

\* C7: a run rejected under Strict reports, in input order, exactly the
\* repositories with is_clean = false, one "* <toplevel> @ <revision>" entry
\* each, under a header with their count and "repository" for one,
\* "repositories" for more.
C7_StrictReport ==
    (Exited /\ Rejected /\ ~ignore_untracked /\ ~ignore_dirty) =>
        /\ ReportLists(stderr, SelectSeq(repos, LAMBDA r : ~r.is_clean), FALSE)
        /\ \A k \in 1..Len(repos) :
              repos[k].is_clean <=> DiskClean(RepoOf(pointers[k]))
        /\ exitcode = CODE

\* A clean repository, then a dirty one: the report counts and lists one.
C7_Witness ==
    /\ Exited /\ Rejected /\ ~ignore_untracked /\ ~ignore_dirty
    /\ Len(repos) = 2
    /\ repos[1].is_clean /\ ~repos[2].is_clean
    /\ stderr[1] = <<"1", "dirty", "repository", "found:">>
    /\ Len(StarLines(stderr)) = 1

\* C8: every record a successful run emits has exactly the keys is_clean,
\* revision and toplevel, with is_clean a boolean.
C8_RecordKeys ==
    (Exited /\ exitcode = 0) =>
        \A k \in 1..Len(Emitted) :
            /\ DOMAIN Emitted[k] = {"is_clean", "revision", "toplevel"}
            /\ Emitted[k].is_clean \in BOOLEAN

\* C9: every RepoState has is_clean => is_clean_tracked; each flag says that
\* its own status query printed nothing but whitespace; a repository with
\* only untracked files has is_clean = false and is_clean_tracked = true.
C9_CleanImpliesCleanTracked ==
    \A k \in 1..Len(repos) :
        /\ repos[k].is_clean => repos[k].is_clean_tracked
        /\ repos[k].is_clean <=> DiskClean(RepoOf(pointers[k]))
        /\ repos[k].is_clean_tracked <=> DiskCleanTracked(RepoOf(pointers[k]))
        /\ (DiskCleanTracked(RepoOf(pointers[k]))
            /\ ~DiskClean(RepoOf(pointers[k])))
           => (~repos[k].is_clean /\ repos[k].is_clean_tracked)

\* A repository whose only change is an untracked file was inspected.
C9_Witness ==
    /\ Len(repos) >= 1
    /\ worktree[RepoOf(pointers[1])] = [modified |-> {}, untracked |-> {"b"}]
    /\ ~repos[1].is_clean /\ repos[1].is_clean_tracked

\* C10: the policy is evaluated only once every pointer was inspected, the
\* pointers being inspected in input order; when a later inspection fails,
\* the run ends as a tool failure (not 113, no report of dirty repositories)
\* even if an earlier repository was dirty under the active policy.
C10_NoShortCircuit ==
    /\ (pc = "policy" \/ Rejected) => Inspected
    /\ Len(repos) <= Len(pointers)
    /\ \A k \in 1..Len(repos) :
          repos[k].toplevel = <<RepoOf(pointers[k])>>
    /\ (pc \in {"status", "status_tracked", "revision", "toplevel"}) =>
          (~Inspected /\ path = ResolveDir(pointers[Len(repos) + 1]))
    /\ (Exited /\ raised = "CalledProcessError") =>
          /\ exitcode # CODE
          /\ ~Rejected
          /\ stderr = Traceback("CalledProcessError", toolrc)

\* The first repository violates the Strict policy, the inspection of the
\* second pointer failed.
C10_Witness ==
    /\ Exited /\ raised = "CalledProcessError"
    /\ ~ignore_dirty /\ ~ignore_untracked
    /\ Len(pointers) = 2 /\ Len(repos) = 1
    /\ ~repos[1].is_clean
    /\ exitcode = UncaughtExit
====
